---- MODULE Spec2Model ----
(***************************************************************************)
(* A model of slack-emoji (src/src/main.rs): the two-call metadata fetch   *)
(* (get_emoji), the output sink (FileOrDirectoryWriter), the listing run   *)
(* of `Commands::List`, and the directory reload and the paced download    *)
(* loop of `Commands::Download`.                                           *)
(*                                                                         *)
(* Strings that the program takes apart (paths, URLs) are sequences of     *)
(* one-character strings.  Time is in milliseconds.                        *)
(***************************************************************************)
EXTENDS Integers, Sequences, FiniteSets, TLC

\* ------------------------------------------------------------------ bounds

\* Largest custom_emoji_total_count a response reports.
MaxCount == 2
\* Longest emoji list of the second response.
MaxEmoji == 2
\* Longest output path and workspace name, in characters.
MaxLen == 2
\* Most write calls on one sink.
MaxWrites == 2
\* Longest list of records a download run reloads.
MaxPairs == 2
\* The longest request, write or skipped iteration, in rate-limit intervals.
MaxDur == 2
\* Most entries of the directory a download run reloads.
MaxEntries == 2

\* ------------------------------------------------------------- fetch state

VARIABLES
    fpc,          \* get_emoji's position: "start", "wait1", "got1", "wait2", "done"
    reqs,         \* the requests executed so far, in order: [page, count]
    trips,        \* the outcome of each finished round-trip, in order
    emoji_count,  \* the local `emoji_count` (line 111)
    result        \* get_emoji's return value

fetchVars == <<fpc, reqs, trips, emoji_count, result>>

\* ---------------------------------------------------------- download state

VARIABLES
    dpc,          \* Commands::Download's position: "start", "loop", "done"
    records,      \* the records read back from the directory (emoji_iter)
    force,        \* download_opts.force
    pairs,        \* url_path_pairs
    idx,          \* position of the `for` loop in url_path_pairs, from 1
    fs,           \* the filesystem: what is at each destination path
    fs0,          \* the filesystem as the run found it
    now,          \* the clock, Instant::now(), in ms
    last_dl,      \* the local `last_dl`, in ms
    visited,      \* per finished loop iteration: [i, outcome]
    prev_start,   \* when the latest GET was sent (-1: none yet)
    gap,          \* time between the two latest GETs (-1: fewer than two)
    removal       \* what became of remove_file in the latest iteration

dlVars == <<dpc, records, force, pairs, idx, fs, fs0, now, last_dl, visited,
            prev_start, gap, removal>>

\* -------------------------------------------------------------- sink state

VARIABLES
    spc,          \* Commands::List's position: "start", "ready", "failed"
    output,       \* list_opts.output: NoOutput or a path
    workspace,    \* list_opts.workspace
    ford_writer,  \* the FileOrDirectoryWriter, once built
    dest,         \* the filesystem: what is at the output path
    dest0,        \* what was at the output path when the run started
    inode,        \* the content of the file the File variant holds open
    linked,       \* whether that file is still the one at the output path
    stdout,       \* what was written to standard output
    ret,          \* what the latest write returned
    nwrites,      \* the number of write calls so far
    calls         \* per write call, in order: [name, text, ret]

sinkVars == <<spc, output, workspace, ford_writer, dest, dest0, inode, linked,
              stdout, ret, nwrites, calls>>

\* -------------------------------------------------------------- list state

VARIABLES
    lpc,          \* Commands::List after the sink setup: "run", "loop", "done",
                  \* "exit1"
    emoji,        \* the local `emoji`: the list get_emoji returned
    lidx,         \* position of the `for` loop in emoji, from 1
    attempts      \* per finished loop iteration: [i, outcome]

listVars == <<lpc, emoji, lidx, attempts>>

\* ------------------------------------------------------------ reload state

VARIABLES
    rpc,          \* the reload's position: "start", "scan", "done", "exit1",
                  \* "exit2"
    dl_path,      \* what is at download_opts.path
    rpos,         \* the next entry read_dir yields, from 1
    loaded        \* the records emoji_iter has yielded, in order

reloadVars == <<rpc, dl_path, rpos, loaded>>

vars == <<fetchVars, dlVars, sinkVars, listVars, reloadVars>>

notFetchVars == <<dlVars, sinkVars, listVars, reloadVars>>
notDlVars == <<fetchVars, sinkVars, listVars, reloadVars>>
notSinkVars == <<fetchVars, dlVars, listVars, reloadVars>>
notReloadVars == <<fetchVars, dlVars, sinkVars, listVars>>

\* ------------------------------------------------------------ fetch: data

Names == {"a", "b"}
CreatedVals == {1, 2}

\* struct Emoji, reduced to its key and its sort key.
Emoji == [name : Names, created : CreatedVals]

\* UnknownJSONFields: a string-keyed map, here a set of <<key, value>> pairs.
UnknownJSONFields ==
    { {}, {<<"error", "invalid_auth">>}, {<<"error", "ratelimited">>} }

\* All sequences over S of length at most n.
SeqUpTo(S, n) == UNION { [1..k -> S] : k \in 0..n }

\* struct EmojiAdminList, as deserialized from a response body. `limit` is the
\* longest list the service sends for the request.
EmojiAdminList(limit) ==
    [ok : BOOLEAN,
     custom_emoji_total_count : 0..MaxCount,
     emoji : SeqUpTo(Emoji, limit),
     unknown_fields : UnknownJSONFields]

\* What makes `client.execute(req)?.error_for_status()?` or `res.json()?` fail.
ReqwestErrors == {"timeout", "connect", "status", "decode"}

\* The outcomes of one round-trip: a parsed response or a reqwest::Error.
Outcomes(limit) ==
    { [kind |-> "response", body |-> b] : b \in EmojiAdminList(limit) }
    \cup { [kind |-> "error", err |-> e] : e \in ReqwestErrors }

NoResult == [tag |-> "none"]

\* Ok(admin_list.emoji)
OkResult(list) == [tag |-> "Ok", emoji |-> list]

\* GetEmojiError::ApiResponse(admin_list.unknown_fields)
ApiResponse(fields) == [tag |-> "ApiResponse", fields |-> fields]

\* A conversion that loses the difference between the two error variants.
FromReqwestErrorAsApi(err) == [tag |-> "ApiResponse", fields |-> {}]

\* impl From<reqwest::Error> for GetEmojiError: what `?` returns.
FromReqwestError(err) == [tag |-> "Reqwest", err |-> err]

\* The first request: page 1, count 1.
FirstRequest == [page |-> 1, count |-> 1]

\* A second request that repeats the first one's count.
SecondRequestOne(count) == [page |-> 1, count |-> 1]

\* The second request: page 1, count emoji_count.
SecondRequest(count) == [page |-> 1, count |-> count]

\* Insert e after every element whose key is <= e's: a stable insertion.
RECURSIVE InsertByKey(_, _)
InsertByKey(e, s) ==
    IF s = <<>> THEN <<e>>
    ELSE IF e.created < Head(s).created THEN <<e>> \o s
    ELSE <<Head(s)>> \o InsertByKey(e, Tail(s))

RECURSIVE SortFrom(_, _)
SortFrom(s, acc) ==
    IF s = <<>> THEN acc ELSE SortFrom(Tail(s), InsertByKey(Head(s), acc))

\* A sort that leaves records of equal key in reverse order.
SortByCreatedTiesReversed(s) ==
    SortFrom([i \in 1..Len(s) |-> s[Len(s) + 1 - i]], <<>>)

\* admin_list.emoji.sort_by_key(|e| e.created): a stable sort, ascending.
SortByCreated(s) == SortFrom(s, <<>>)

\* ---------------------------------------------------------- fetch: actions

FetchStart ==
    /\ fpc = "start"
    /\ reqs = <<>>
    /\ trips = <<>>
    /\ emoji_count = 0
    /\ result = NoResult

\* Lines 91-105: build the first request and execute it; `.build()?` may fail
\* before anything is sent.
SendFirst ==
    /\ fpc = "start"
    /\ \/ /\ reqs' = Append(reqs, FirstRequest)
          /\ fpc' = "wait1"
          /\ UNCHANGED <<trips, emoji_count, result, notFetchVars>>
       \/ /\ result' = FromReqwestError("builder")
          /\ fpc' = "done"
          /\ UNCHANGED <<reqs, trips, emoji_count, notFetchVars>>

\* Lines 105-111: the first round-trip ends.
RecvFirst ==
    /\ fpc = "wait1"
    /\ \E o \in Outcomes(1) :
        /\ trips' = Append(trips, o)
        /\ IF o.kind = "error"
           THEN /\ result' = FromReqwestError(o.err)
                /\ fpc' = "done"
                /\ UNCHANGED emoji_count
           ELSE IF ~o.body.ok
           THEN /\ result' = ApiResponse(o.body.unknown_fields)
                /\ fpc' = "done"
                /\ UNCHANGED emoji_count
           ELSE /\ emoji_count' = o.body.custom_emoji_total_count
                /\ fpc' = "got1"
                /\ UNCHANGED result
    /\ UNCHANGED <<reqs, notFetchVars>>

\* Lines 113-127: build the second request and execute it.
SendSecond ==
    /\ fpc = "got1"
    /\ \/ /\ reqs' = Append(reqs, SecondRequest(emoji_count))
          /\ fpc' = "wait2"
          /\ UNCHANGED <<trips, emoji_count, result, notFetchVars>>
       \/ /\ result' = FromReqwestError("builder")
          /\ fpc' = "done"
          /\ UNCHANGED <<reqs, trips, emoji_count, notFetchVars>>

\* What lines 129-133 return for a parsed second response.
SecondResponseResult(body) == OkResult(SortByCreated(body.emoji))

\* Lines 127-133: the second round-trip ends.
RecvSecond ==
    /\ fpc = "wait2"
    /\ \E o \in Outcomes(MaxEmoji) :
        /\ trips' = Append(trips, o)
        /\ result' = IF o.kind = "error"
                     THEN FromReqwestError(o.err)
                     ELSE SecondResponseResult(o.body)
        /\ fpc' = "done"
    /\ UNCHANGED <<reqs, emoji_count, notFetchVars>>

FetchNext == SendFirst \/ RecvFirst \/ SendSecond \/ RecvSecond

\* ---------------------------------------------------------- download: data

MaxOf(a, b) == IF a >= b THEN a ELSE b

\* The largest i with s[i] = c, 0 when c does not occur in s.
LastIndexOf(s, c) ==
    LET hits == { i \in 1..Len(s) : s[i] = c }
    IN  IF hits = {} THEN 0 ELSE CHOOSE i \in hits : \A j \in hits : j <= i

PngSuffix == <<"p", "n", "g">>

\* e.url.rsplit_once('.').unwrap_or(("", "png")).1
UrlSuffix(url) ==
    LET i == LastIndexOf(url, ".")
    IN  IF i = 0 THEN PngSuffix ELSE SubSeq(url, i + 1, Len(url))

\* PathBuf::join for a non-empty base: an absolute `name` replaces the base.
Join(base, name) ==
    IF name # <<>> /\ name[1] = "/" THEN name
    ELSE IF base[Len(base)] = "/" THEN base \o name
    ELSE base \o <<"/">> \o name

\* Path::with_extension: the file name is what follows the last separator; its
\* stem is what precedes its last '.', or all of it when it has no '.', or only
\* a leading one; the stem is kept and "." ext appended (nothing for an empty
\* ext). A path without a file name ("..") is left as it is.
WithExtension(path, ext) ==
    LET start == LastIndexOf(path, "/")
        fname == SubSeq(path, start + 1, Len(path))
        dot   == LastIndexOf(fname, ".")
        stem  == IF dot <= 1 THEN fname ELSE SubSeq(fname, 1, dot - 1)
    IN  IF fname = <<>> \/ fname = <<".", ".">> THEN path
        ELSE SubSeq(path, 1, start) \o stem
             \o (IF ext = <<>> THEN <<>> ELSE <<".">> \o ext)

\* download_opts.path
BasePath == <<"d">>

\* One element of url_path_pairs (lines 348-353).
UrlPathPair(e) ==
    [url |-> e.url,
     path |-> WithExtension(Join(BasePath, e.name), UrlSuffix(e.url))]

\* url_path_pairs (lines 347-354): one pair per record, in order.
UrlPathPairs(recs) == [i \in 1..Len(recs) |-> UrlPathPair(recs[i])]

\* The records a run reloads are drawn from these: a plain record, one whose
\* name has a '.' and whose URL has none, and an alias whose URL has no
\* extension in its last segment.
Catalog ==
    { [name |-> <<"a">>, is_alias |-> 0,
       url |-> <<"h", ".", "c", "/", "x", ".", "p", "n", "g">>],
      [name |-> <<"a", ".", "b">>, is_alias |-> 0,
       url |-> <<"h", "/", "y">>],
      [name |-> <<"b">>, is_alias |-> 1,
       url |-> <<"h", ".", "c", "/", "y">>] }

\* What can be at a path.
Absent == [kind |-> "absent"]
Dir == [kind |-> "dir"]
OldFile == [kind |-> "file", data |-> "old"]
PartialFile == [kind |-> "file", data |-> "partial"]
BodyFile(url) == [kind |-> "file", data |-> "body", of |-> url]

\* Path::is_file
IsFile(entry) == entry.kind = "file"

\* let min_dif = Duration::from_secs(1) / 20, in ms (line 358)
MinDif == 1000 \div 20

\* How long a request with its write, or a skipped iteration, may take, in ms.
Durations == {0, MaxDur * MinDif}

\* How long the part of an iteration before its GET (the is_file test, the
\* progress bar's output) may take, in ms.
PreDurations == {0, MinDif \div 2}

\* A loop that downloads whatever is in place.
ShouldSkipNever(f, entry) == FALSE

\* Line 362: !download_opts.force && path.is_file()
ShouldSkip(f, entry) == ~f /\ IsFile(entry)

\* A loop that drops the pair after a skipped one.
NextIdxSkipTwo(i, outcome) == IF outcome = "skip" THEN i + 2 ELSE i + 1

\* The `for` loop moves on to the next pair whatever the iteration did.
NextIdx(i, outcome) == i + 1

\* A deadline that advances by two intervals.
NextDlTwice(last) == last + 2 * MinDif

\* let next_dl = last_dl + min_dif (line 396)
NextDl(last) == last + MinDif

\* The clock after lines 396-397: sleep until next_dl unless it has passed.
AfterSleep(t, last) == MaxOf(t, NextDl(last))

\* A failure branch that removes the destination.
FsAfterFailedRequestTouch(f, path) == [f EXCEPT ![path] = Absent]

\* Lines 376-383: a failed request touches no file.
FsAfterFailedRequest(f, path) == f

\* A clean-up that removes nothing.
FsAfterCleanupKeep(f, path, removed) == f

\* Lines 390-392: after a failed write, a regular file at the path is removed;
\* `removed` is whether remove_file succeeds.
FsAfterCleanup(f, path, removed) ==
    IF IsFile(f[path]) /\ removed THEN [f EXCEPT ![path] = Absent] ELSE f

\* What became of remove_file (line 391): not called when nothing or a
\* directory is at the path.
Removal(entry, removed) ==
    IF ~IsFile(entry) THEN "none" ELSE IF removed THEN "ok" ELSE "failed"

\* ------------------------------------------------------- download: actions

DownloadIdle ==
    /\ dpc = "idle"
    /\ records = <<>>
    /\ force = FALSE
    /\ pairs = <<>>
    /\ idx = 0
    /\ fs = <<>>
    /\ fs0 = <<>>
    /\ now = 0
    /\ last_dl = 0
    /\ visited = <<>>
    /\ prev_start = -1
    /\ gap = -1
    /\ removal = "none"

DestPaths(recs) == { UrlPathPair(recs[i]).path : i \in 1..Len(recs) }

\* After the records were read back (line 344): any records, any force flag,
\* anything at each destination.
DownloadStart ==
    /\ dpc = "start"
    /\ records \in SeqUpTo(Catalog, MaxPairs)
    /\ force \in BOOLEAN
    /\ pairs = <<>>
    /\ idx = 0
    /\ fs \in [DestPaths(records) -> {Absent, Dir, OldFile}]
    /\ fs0 = fs
    /\ now = 0
    /\ last_dl = 0
    /\ visited = <<>>
    /\ prev_start = -1
    /\ gap = -1
    /\ removal = "none"

\* Lines 346-359: build url_path_pairs, read the clock into last_dl.
BuildPairs ==
    /\ dpc = "start"
    /\ pairs' = UrlPathPairs(records)
    /\ last_dl' = now
    /\ idx' = 1
    /\ dpc' = "loop"
    /\ UNCHANGED <<records, force, fs, fs0, now, visited, prev_start, gap,
                   removal, notDlVars>>

InLoop == dpc = "loop" /\ idx <= Len(pairs)

\* The bookkeeping of an iteration that sent its GET at time t.
GetSent(t) ==
    /\ prev_start' = t
    /\ gap' = IF prev_start = -1 THEN -1 ELSE t - prev_start

\* Lines 362-364: the destination is there and force is off: next pair.
SkipPair ==
    /\ InLoop
    /\ ShouldSkip(force, fs[pairs[idx].path])
    /\ \E d \in Durations : now' = now + d
    /\ visited' = Append(visited, [i |-> idx, outcome |-> "skip"])
    /\ idx' = NextIdx(idx, "skip")
    /\ removal' = "none"
    /\ UNCHANGED <<dpc, records, force, pairs, fs, fs0, last_dl, prev_start, gap,
                   notDlVars>>

\* Lines 370-383: the GET fails (network, timeout, status, body): report, next
\* pair.
RequestFails ==
    /\ InLoop
    /\ ~ShouldSkip(force, fs[pairs[idx].path])
    /\ \E pre \in PreDurations, d \in Durations :
        /\ GetSent(now + pre)
        /\ now' = now + pre + d
    /\ fs' = FsAfterFailedRequest(fs, pairs[idx].path)
    /\ visited' = Append(visited, [i |-> idx, outcome |-> "request_failed"])
    /\ idx' = NextIdx(idx, "request_failed")
    /\ removal' = "none"
    /\ UNCHANGED <<dpc, records, force, pairs, fs0, last_dl, notDlVars>>

\* Lines 370-398: the GET succeeds and the body is written; then the pacing.
DownloadWrites ==
    /\ InLoop
    /\ ~ShouldSkip(force, fs[pairs[idx].path])
    /\ fs[pairs[idx].path] # Dir
    /\ \E pre \in PreDurations, d \in Durations :
        /\ GetSent(now + pre)
        /\ now' = AfterSleep(now + pre + d, last_dl)
    /\ last_dl' = NextDl(last_dl)
    /\ fs' = [fs EXCEPT ![pairs[idx].path] = BodyFile(pairs[idx].url)]
    /\ visited' = Append(visited, [i |-> idx, outcome |-> "ok"])
    /\ idx' = NextIdx(idx, "ok")
    /\ removal' = "none"
    /\ UNCHANGED <<dpc, records, force, pairs, fs0, notDlVars>>

\* Lines 370-398: the GET succeeds and std::fs::write fails, either opening the
\* file (nothing changes) or part-way (a partial file is left); then the
\* clean-up of line 390-392 and the pacing.
DownloadWriteFails ==
    /\ InLoop
    /\ ~ShouldSkip(force, fs[pairs[idx].path])
    /\ \E pre \in PreDurations, d \in Durations :
        /\ GetSent(now + pre)
        /\ now' = AfterSleep(now + pre + d, last_dl)
    /\ last_dl' = NextDl(last_dl)
    /\ \E opened \in BOOLEAN, removed \in BOOLEAN :
        LET written == IF opened
                       THEN [fs EXCEPT ![pairs[idx].path] = PartialFile]
                       ELSE fs
        IN  /\ opened => fs[pairs[idx].path] # Dir
            /\ fs' = FsAfterCleanup(written, pairs[idx].path, removed)
            /\ removal' = Removal(written[pairs[idx].path], removed)
    /\ visited' = Append(visited, [i |-> idx, outcome |-> "write_failed"])
    /\ idx' = NextIdx(idx, "write_failed")
    /\ UNCHANGED <<dpc, records, force, pairs, fs0, notDlVars>>

\* Line 401: the list is exhausted.
DownloadDone ==
    /\ dpc = "loop"
    /\ idx > Len(pairs)
    /\ dpc' = "done"
    /\ UNCHANGED <<records, force, pairs, idx, fs, fs0, now, last_dl, visited,
                   prev_start, gap, removal, notDlVars>>

DownloadNext ==
    \/ BuildPairs
    \/ SkipPair
    \/ RequestFails
    \/ DownloadWrites
    \/ DownloadWriteFails
    \/ DownloadDone

\* -------------------------------------------------------------- sink: data

\* The characters paths and workspace names are made of.
Chars == {"-", "/", ".", "a"}

\* std::path::MAIN_SEPARATOR, on Unix
MainSeparator == "/"

Paths == SeqUpTo(Chars, MaxLen)

NoOutput == <<"none">>
SomePath(p) == <<"some", p>>

\* The index of the first separator of s, 0 when it has none.
FirstSep(s) ==
    LET hits == { i \in 1..Len(s) : s[i] = MainSeparator }
    IN  IF hits = {} THEN 0 ELSE CHOOSE i \in hits : \A j \in hits : i <= j

\* The non-empty pieces of s between separators, in order.
RECURSIVE Segments(_)
Segments(s) ==
    IF s = <<>> THEN <<>>
    ELSE LET i == FirstSep(s)
         IN  IF i = 0 THEN <<s>>
             ELSE (IF i = 1 THEN <<>> ELSE <<SubSeq(s, 1, i - 1)>>)
                  \o Segments(SubSeq(s, i + 1, Len(s)))

RootDir == <<"/">>
CurDir == <<".">>
ParentDir == <<".", ".">>
NotCurDir(seg) == seg # CurDir

\* Path::components: the root if the path starts with a separator, a leading
\* "." of a relative path, then every piece that is not "."; repeated and
\* trailing separators leave no trace.
Components(p) ==
    LET root == p # <<>> /\ p[1] = MainSeparator
        lead == /\ p # <<>>
                /\ p[1] = "."
                /\ (Len(p) = 1 \/ p[2] = MainSeparator)
    IN  (IF root THEN <<RootDir>> ELSE <<>>)
        \o (IF lead THEN <<CurDir>> ELSE <<>>)
        \o SelectSeq(Segments(p), NotCurDir)

\* impl PartialEq for PathBuf: paths are equal when their components are.
PathEq(p, q) == Components(p) = Components(q)

\* pf.to_string_lossy().ends_with(std::path::MAIN_SEPARATOR)
EndsWithSeparator(p) == p # <<>> /\ p[Len(p)] = MainSeparator

Dash == <<"-">>

\* A default of "-" instead of the workspace directory.
DefaultOutputDash(ws) == Dash

\* Line 278: the path used when no --output is given.
DefaultOutput(ws) == ws \o <<"/">>

\* list_opts.output.unwrap_or(...) (lines 276-278)
OutputPath(out, ws) == IF out = NoOutput THEN DefaultOutput(ws) ELSE out[2]

\* A selection that ignores a trailing separator.
SinkVariantNoSeparator(pf, isDir) ==
    IF PathEq(pf, Dash) THEN "StdOut"
    ELSE IF isDir THEN "Directory"
    ELSE "File"

\* The branch try_from takes (lines 243-247); isDir is pf.is_dir().
SinkVariant(pf, isDir) ==
    IF PathEq(pf, Dash) THEN "StdOut"
    ELSE IF isDir \/ EndsWithSeparator(pf) THEN "Directory"
    ELSE "File"

NoWriter == [variant |-> "none"]
StdOutWriter == [variant |-> "StdOut"]
FileWriter == [variant |-> "File"]
DirectoryWriter(pf) == [variant |-> "Directory", dir |-> pf]

EmptyDir == [kind |-> "dir", files |-> {}]
DirOf(files) == [kind |-> "dir", files |-> files]
FileOf(data) == [kind |-> "file", data |-> data]

\* A path made only of the root, "." and "..": always a directory.
AlwaysDir(pf) ==
    /\ Components(pf) # <<>>
    /\ \A i \in 1..Len(Components(pf)) :
        Components(pf)[i] \in {RootDir, CurDir, ParentDir}

\* Whether open(pf) for writing can succeed at all: pf must end in a name.
CanOpen(pf) ==
    /\ Segments(pf) # <<>>
    /\ Segments(pf)[Len(Segments(pf))] \notin {CurDir, ParentDir}
    /\ ~EndsWithSeparator(pf)

\* What a run may find at pf.
DestStates(pf) ==
    IF AlwaysDir(pf) THEN {EmptyDir}
    ELSE IF Components(pf) = <<>> THEN {Absent}
    ELSE {Absent, EmptyDir, FileOf(<<"o">>)}

\* The record names and serialized records handed to write.
WriteNames == { <<"a">>, <<"a", ".", "b">> }
WriteTexts == { <<"x">>, <<"y", "z">> }

\* The StdOut and File variants never read `name`: one name stands for all.
AnyName == <<"a">>

JsonExt == <<"j", "s", "o", "n">>

\* The file written for a record: dir.join(name).with_extension("json"),
\* reduced to its last piece.
RecordFile(dir, name) ==
    LET path == WithExtension(Join(dir, name), JsonExt)
    IN  SubSeq(path, LastIndexOf(path, "/") + 1, Len(path))

\* (serialized + "\n").as_bytes()
Line(text) == text \o <<"\n">>

OkRet(n) == [tag |-> "Ok", n |-> n]
ErrRet == [tag |-> "Err"]
NoRet == [tag |-> "none"]

\* ------------------------------------------------------------ sink: actions

SinkIdle ==
    /\ spc = "idle"
    /\ output = NoOutput
    /\ workspace = <<>>
    /\ ford_writer = NoWriter
    /\ dest = Absent
    /\ dest0 = Absent
    /\ inode = <<>>
    /\ linked = FALSE
    /\ stdout = <<>>
    /\ ret = NoRet
    /\ nwrites = 0
    /\ calls = <<>>

\* After Cli::from_args (line 270): either no --output and any workspace name,
\* or any --output; anything possible at the output path.
SinkStart ==
    /\ spc = "start"
    /\ \/ output = NoOutput /\ workspace \in Paths
       \/ output \in { SomePath(p) : p \in Paths } /\ workspace = <<"a">>
    /\ ford_writer = NoWriter
    /\ dest \in DestStates(OutputPath(output, workspace))
    /\ dest0 = dest
    /\ inode = <<>>
    /\ linked = FALSE
    /\ stdout = <<>>
    /\ ret = NoRet
    /\ nwrites = 0
    /\ calls = <<>>

\* Lines 276-286 with try_from (lines 242-256): choose the variant; the File
\* variant creates or truncates the file, and a failed open ends the run.
SinkSetup ==
    /\ spc = "start"
    /\ LET pf == OutputPath(output, workspace)
           v  == SinkVariant(pf, dest.kind = "dir")
       IN  \/ /\ v = "StdOut"
              /\ ford_writer' = StdOutWriter
              /\ spc' = "ready"
              /\ UNCHANGED <<dest, inode, linked>>
           \/ /\ v = "Directory"
              /\ ford_writer' = DirectoryWriter(pf)
              /\ spc' = "ready"
              /\ UNCHANGED <<dest, inode, linked>>
           \/ /\ v = "File"
              /\ CanOpen(pf)
              /\ dest.kind # "dir"
              /\ ford_writer' = FileWriter
              /\ dest' = FileOf(<<>>)
              /\ inode' = <<>>
              /\ linked' = TRUE
              /\ spc' = "ready"
           \/ /\ v = "File"
              /\ spc' = "failed"
              /\ UNCHANGED <<ford_writer, dest, inode, linked>>
    /\ UNCHANGED <<output, workspace, dest0, stdout, ret, nwrites, calls,
                   notSinkVars>>

\* write on the StdOut variant (lines 219-221): some or all of the bytes are
\* written, or the write fails.
StdOutWrite(text) ==
    /\ \/ \E n \in 1..Len(Line(text)) :
            /\ stdout' = stdout \o SubSeq(Line(text), 1, n)
            /\ ret' = OkRet(n)
       \/ /\ ret' = ErrRet
          /\ UNCHANGED stdout
    /\ UNCHANGED <<inode, dest>>

\* write on the File variant (lines 222-224): appends to the open file, which
\* is the file at the output path unless that was replaced meanwhile.
FileWrite(text) ==
    /\ \/ \E n \in 1..Len(Line(text)) :
            /\ inode' = inode \o SubSeq(Line(text), 1, n)
            /\ dest' = IF linked THEN FileOf(inode') ELSE dest
            /\ ret' = OkRet(n)
       \/ /\ ret' = ErrRet
          /\ UNCHANGED <<inode, dest>>
    /\ UNCHANGED stdout

\* The directory's files after std::fs::write of `bytes` to `fname`.
PutFile(files, fname, bytes) ==
    { f \in files : f[1] # fname } \cup { <<fname, bytes>> }

\* write on the Directory variant (lines 225-235): create the directory when
\* nothing is there, then write <name>.json; either step may fail.
DirectoryWrite(name, text) ==
    /\ \E works \in BOOLEAN :
        IF works /\ dest.kind # "file"
        THEN /\ dest' = DirOf(PutFile(
                            IF dest.kind = "dir" THEN dest.files ELSE {},
                            RecordFile(ford_writer.dir, name), Line(text)))
             /\ ret' = OkRet(Len(text) + 1)
        ELSE /\ ret' = ErrRet
             /\ UNCHANGED dest
    /\ UNCHANGED <<stdout, inode>>

\* FileOrDirectoryWriter::write (lines 217-237) on the sink that was set up.
FordWrite(name, text) ==
    /\ CASE ford_writer.variant = "StdOut" -> StdOutWrite(text)
         [] ford_writer.variant = "File" -> FileWrite(text)
         [] ford_writer.variant = "Directory" -> DirectoryWrite(name, text)
    /\ nwrites' = nwrites + 1
    /\ calls' = Append(calls, [name |-> name, text |-> text, ret |-> ret'])

\* A write call on a StdOut sink, with any text.
WriteStdOut ==
    /\ spc = "ready"
    /\ nwrites < MaxWrites
    /\ ford_writer.variant = "StdOut"
    /\ \E text \in WriteTexts : FordWrite(AnyName, text)
    /\ UNCHANGED <<spc, output, workspace, ford_writer, dest0, linked,
                   notSinkVars>>

\* A write call on a File sink.
WriteFile ==
    /\ spc = "ready"
    /\ nwrites < MaxWrites
    /\ ford_writer.variant = "File"
    /\ \E text \in WriteTexts : FordWrite(AnyName, text)
    /\ UNCHANGED <<spc, output, workspace, ford_writer, dest0, linked,
                   notSinkVars>>

\* A write call on a Directory sink.
WriteDirectory ==
    /\ spc = "ready"
    /\ nwrites < MaxWrites
    /\ ford_writer.variant = "Directory"
    /\ \E name \in WriteNames, text \in WriteTexts : FordWrite(name, text)
    /\ UNCHANGED <<spc, output, workspace, ford_writer, dest0, linked,
                   notSinkVars>>

\* Another process removes or replaces what is at the output path.
FsChange ==
    /\ spc = "ready"
    /\ \E d \in {Absent, EmptyDir, FileOf(<<"o">>)} :
        /\ d.kind # dest.kind
        /\ ~AlwaysDir(OutputPath(output, workspace))
        /\ dest' = d
    /\ linked' = FALSE
    /\ UNCHANGED <<spc, output, workspace, ford_writer, dest0, inode, stdout,
                   ret, nwrites, calls, notSinkVars>>

SinkNext ==
    \/ SinkSetup
    \/ WriteStdOut
    \/ WriteFile
    \/ WriteDirectory
    \/ FsChange

\* ------------------------------------------------------------ reload: data

NoExt == <<"none">>
SomeExt(ext) == <<"some", ext>>

\* An Extension that takes every file for a JSON file.
ExtensionAlwaysJson(fname) == SomeExt(JsonExt)

\* Path::extension of a file name: what follows its last '.', unless it has
\* no '.' or only a leading one.
Extension(fname) ==
    LET dot == LastIndexOf(fname, ".")
    IN  IF dot <= 1 THEN NoExt ELSE SomeExt(SubSeq(fname, dot + 1, Len(fname)))

\* The names entries of the directory have.
FileNames ==
    { <<"a", ".", "j", "s", "o", "n">>,
      <<"b", ".", "j", "s", "o", "n">>,
      <<"c", ".", "p", "n", "g">>,
      <<".", "j", "s", "o", "n">> }

\* What read(path) and serde_json::from_slice make of a file: it cannot be
\* read, it is no JSON text of an Emoji, or it is one.
Contents ==
    { [c |-> "unreadable"], [c |-> "malformed"] }
    \cup { [c |-> "record", rec |-> r] : r \in Catalog }

\* What read_dir yields per entry: an error, a directory or a file.
Entries ==
    { [kind |-> "err"] }
    \cup { [kind |-> "dir", fname |-> f] : f \in FileNames }
    \cup { [kind |-> "file", fname |-> f, content |-> c] :
            f \in FileNames, c \in Contents }

\* No two entries of a directory have the same name.
DistinctNames(es) ==
    \A i, j \in 1..Len(es) :
        (i # j /\ es[i].kind # "err" /\ es[j].kind # "err")
        => es[i].fname # es[j].fname

\* What can be at download_opts.path.
Missing == [kind |-> "missing"]
NoDirectory == [kind |-> "nodir"]
Listing(es) == [kind |-> "dir", entries |-> es]

\* Lines 329-343, for one entry: the records the filters let through.
Yield(e) ==
    IF /\ e.kind # "err"
       /\ e.kind = "file"
       /\ Extension(e.fname) = SomeExt(JsonExt)
       /\ e.content.c # "unreadable"
       /\ e.content.c = "record"
    THEN <<e.content.rec>>
    ELSE <<>>

\* --------------------------------------------------------- reload: actions

ReloadIdle ==
    /\ rpc = "idle"
    /\ dl_path = Missing
    /\ rpos = 0
    /\ loaded = <<>>

\* After Cli::from_args (line 270) of a download run: anything at the path.
ReloadStart ==
    /\ rpc = "start"
    /\ dl_path \in {Missing, NoDirectory}
              \cup { Listing(es) : es \in { x \in SeqUpTo(Entries, MaxEntries) :
                                              DistinctNames(x) } }
    /\ rpos = 0
    /\ loaded = <<>>

\* Lines 318-328: the path must exist (exit 1) and read_dir must succeed
\* (exit 2).
ReloadOpen ==
    /\ rpc = "start"
    /\ \/ /\ dl_path = Missing
          /\ rpc' = "exit1"
          /\ UNCHANGED rpos
       \/ /\ dl_path = NoDirectory
          /\ rpc' = "exit2"
          /\ UNCHANGED rpos
       \/ /\ dl_path.kind = "dir"
          /\ rpc' = "scan"
          /\ rpos' = 1
    /\ UNCHANGED <<dl_path, loaded, notReloadVars>>

\* Lines 329-343: the next entry goes through the filters.
ReloadEntry ==
    /\ rpc = "scan"
    /\ rpos <= Len(dl_path.entries)
    /\ loaded' = loaded \o Yield(dl_path.entries[rpos])
    /\ rpos' = rpos + 1
    /\ UNCHANGED <<rpc, dl_path, notReloadVars>>

\* read_dir is exhausted: emoji_iter ends.
ReloadDone ==
    /\ rpc = "scan"
    /\ rpos > Len(dl_path.entries)
    /\ rpc' = "done"
    /\ UNCHANGED <<dl_path, rpos, loaded, notReloadVars>>

ReloadNext == ReloadOpen \/ ReloadEntry \/ ReloadDone

\* -------------------------------------------------------------- list: data

\* Everything get_emoji can return (lines 86-134): an error of either kind,
\* or the sorted list of a second response.
GetEmojiResults ==
    { FromReqwestError(e) : e \in ReqwestErrors \cup {"builder"} }
    \cup { ApiResponse(f) : f \in UnknownJSONFields }
    \cup { SecondResponseResult(b) : b \in EmojiAdminList(MaxEmoji) }

Digits == <<"1", "2", "3", "4", "5", "6", "7", "8", "9">>

\* serde_json::to_string_pretty(e): a text that tells the records apart.
ToStringPretty(e) == <<e.name, Digits[e.created]>>

\* The output tokens of the listing runs looked at: none, "-", and a name.
ListOutputs == { NoOutput, SomePath(Dash), SomePath(<<"a">>) }

\* A loop that gives up at the first record that fails.
ListNextIdxAbort(i, n, outcome) == IF outcome = "ok" THEN i + 1 ELSE n + 1

\* The `for` loop over `emoji` (line 298) moves on to the next record whatever
\* became of this one; n is emoji.len().
ListNextIdx(i, n, outcome) == i + 1

\* ----------------------------------------------------------- list: actions

ListIdle ==
    /\ lpc = "idle"
    /\ emoji = <<>>
    /\ lidx = 0
    /\ attempts = <<>>

\* Commands::List is entered (line 273).
ListStart ==
    /\ lpc = "run"
    /\ emoji = <<>>
    /\ lidx = 0
    /\ attempts = <<>>

\* Lines 288-294, reached once the sink is set up: get_emoji returns; an error
\* ends the run with exit code 1.
ListFetch ==
    /\ lpc = "run"
    /\ spc = "ready"
    /\ \E r \in GetEmojiResults :
        IF r.tag = "Ok"
        THEN /\ emoji' = r.emoji
             /\ lidx' = 1
             /\ lpc' = "loop"
        ELSE /\ lpc' = "exit1"
             /\ UNCHANGED <<emoji, lidx>>
    /\ UNCHANGED <<attempts, sinkVars, fetchVars, dlVars, reloadVars>>

\* Lines 298-312, one iteration: serialize the record and write it to the
\* sink; a failure of either is printed.
ListRecord ==
    /\ lpc = "loop"
    /\ lidx <= Len(emoji)
    /\ \/ /\ attempts' = Append(attempts,
                            [i |-> lidx, outcome |-> "serialize_failed"])
          /\ lidx' = ListNextIdx(lidx, Len(emoji), "serialize_failed")
          /\ UNCHANGED <<dest, inode, stdout, ret, nwrites, calls>>
       \/ /\ FordWrite(<<emoji[lidx].name>>, ToStringPretty(emoji[lidx]))
          /\ LET outcome == IF ret'.tag = "Ok" THEN "ok" ELSE "write_failed"
             IN  /\ attempts' = Append(attempts,
                                    [i |-> lidx, outcome |-> outcome])
                 /\ lidx' = ListNextIdx(lidx, Len(emoji), outcome)
    /\ UNCHANGED <<lpc, emoji, spc, output, workspace, ford_writer, dest0,
                   linked, fetchVars, dlVars, reloadVars>>

\* Line 313: the list is exhausted.
ListDone ==
    /\ lpc = "loop"
    /\ lidx > Len(emoji)
    /\ lpc' = "done"
    /\ UNCHANGED <<emoji, lidx, attempts, sinkVars, fetchVars, dlVars,
                   reloadVars>>

\* Commands::List: the sink setup (lines 276-286), the fetch, the loop.
ListNext == SinkSetup \/ ListFetch \/ ListRecord \/ ListDone

\* ---------------------------------------------------------- specifications

FetchInit == FetchStart /\ DownloadIdle /\ SinkIdle /\ ListIdle /\ ReloadIdle

SpecFetch == FetchInit /\ [][FetchNext]_vars

FetchIdle ==
    /\ fpc = "idle"
    /\ reqs = <<>>
    /\ trips = <<>>
    /\ emoji_count = 0
    /\ result = NoResult

DownloadInit ==
    DownloadStart /\ FetchIdle /\ SinkIdle /\ ListIdle /\ ReloadIdle

SpecDownload == DownloadInit /\ [][DownloadNext]_vars

SinkInit == SinkStart /\ FetchIdle /\ DownloadIdle /\ ListIdle /\ ReloadIdle

SpecSink == SinkInit /\ [][SinkNext]_vars

\* The loop is sequential code that blocks only in calls that return (each
\* request has a timeout, the sleep is finite): every enabled step is taken.
FairSpecDownload == SpecDownload /\ WF_vars(DownloadNext)

ReloadInit ==
    ReloadStart /\ FetchIdle /\ DownloadIdle /\ SinkIdle /\ ListIdle

SpecReload == ReloadInit /\ [][ReloadNext]_vars

ListInit ==
    /\ SinkStart
    /\ output \in ListOutputs
    /\ workspace = <<"a">>
    /\ ListStart
    /\ FetchIdle
    /\ DownloadIdle
    /\ ReloadIdle

SpecList == ListInit /\ [][ListNext]_vars

\* The loop is sequential code; get_emoji returns (its requests time out).
FairSpecList == SpecList /\ WF_vars(ListNext)

\* ----------------------------------------------------------- fetch: claims

LastTrip == trips[Len(trips)]

TransportErrors == {"timeout", "connect", "status"}

\* C1: whenever the second response arrives with ok = false, get_emoji returns
\* ApiResponse carrying that response's extra fields, and never a record list
\* taken from that response.
C1_SecondFlagValidated ==
    (/\ fpc = "done"
     /\ Len(trips) = 2
     /\ trips[2].kind = "response"
     /\ ~trips[2].body.ok)
    => result = ApiResponse(trips[2].body.unknown_fields)

\* C2: at most two requests, in sequence: the first asks for page 1, count 1;
\* a request is issued only when every earlier round-trip has ended; the second
\* is issued only after a first response with ok = true and asks for page 1 with
\* count = that response's total count; nothing is issued after a failure.
C2_TwoRequestsInSequence ==
    /\ Len(reqs) <= 2
    /\ Len(trips) <= Len(reqs)
    /\ Len(reqs) <= Len(trips) + 1
    /\ Len(reqs) >= 1 => reqs[1] = [page |-> 1, count |-> 1]
    /\ Len(reqs) = 2 =>
        /\ trips[1].kind = "response"
        /\ trips[1].body.ok
        /\ reqs[2] = [page |-> 1,
                      count |-> trips[1].body.custom_emoji_total_count]
    /\ (fpc = "done" /\ result.tag # "Ok") => Len(reqs) = Len(trips)

C2_Witness ==
    /\ fpc = "done"
    /\ Len(reqs) = 2
    /\ reqs[2].count = 2
    /\ result.tag = "Ok"

\* C3: a transport failure (timeout, connection, non-2xx) at either round-trip
\* yields the Reqwest variant; ApiResponse is returned only for a received
\* response whose ok is false; either way the failed round-trip is the last
\* one (no request follows it).
C3_TransportVsApi ==
    fpc = "done" =>
        /\ (/\ trips # <<>>
            /\ LastTrip.kind = "error"
            /\ LastTrip.err \in TransportErrors)
           => result = [tag |-> "Reqwest", err |-> LastTrip.err]
        /\ result.tag = "ApiResponse" =>
            /\ trips # <<>>
            /\ LastTrip.kind = "response"
            /\ ~LastTrip.body.ok
        /\ \A i \in 1..Len(trips) :
            trips[i].kind = "error" => (i = Len(trips) /\ Len(reqs) = i)
        /\ result.tag \in {"Reqwest", "ApiResponse"} => Len(reqs) = Len(trips)

C3_Witness ==
    /\ fpc = "done"
    /\ Len(trips) = 2
    /\ trips[2].kind = "error"
    /\ trips[2].err = "status"
    /\ result.tag = "Reqwest"

\* The one-to-one maps of 1..n onto itself.
Perms(n) ==
    { p \in [1..n -> 1..n] : \A i, j \in 1..n : i # j => p[i] # p[j] }

\* `out` is `inp` rearranged: non-decreasing in created, and records of equal
\* created in the order they have in `inp`.
IsStableSortOf(out, inp) ==
    /\ Len(out) = Len(inp)
    /\ \E p \in Perms(Len(inp)) :
        /\ \A i \in 1..Len(out) : out[i] = inp[p[i]]
        /\ \A i, j \in 1..Len(out) :
            i < j => /\ out[i].created <= out[j].created
                     /\ out[i].created = out[j].created => p[i] < p[j]

\* C13: the list a successful fetch returns is a permutation of the second
\* response's records, non-decreasing in created, records of equal created in
\* the order of the response.
C13_SortedStablePermutation ==
    (fpc = "done" /\ result.tag = "Ok")
    => IsStableSortOf(result.emoji, trips[2].body.emoji)

C13_Witness ==
    /\ fpc = "done"
    /\ result.tag = "Ok"
    /\ trips[2].body.emoji = <<[name |-> "b", created |-> 1],
                               [name |-> "a", created |-> 1]>>
    /\ result.emoji = trips[2].body.emoji

\* -------------------------------------------------------- download: claims

\* The step finished a loop iteration with this outcome.
StepWith(outcomes) ==
    /\ Len(visited') = Len(visited) + 1
    /\ visited'[Len(visited')].outcome \in outcomes

GetOutcomes == {"request_failed", "write_failed", "ok"}

\* C4: any two consecutive GETs start at least one interval (1/20 s) apart.
C4_MinSpacing == gap = -1 \/ gap >= MinDif

\* C4 restricted to runs in which no request failed: the spacing is lost to the
\* late deadline alone.
C4_MinSpacingWithoutFailures ==
    (\A k \in 1..Len(visited) : visited[k].outcome # "request_failed")
    => C4_MinSpacing

\* C5: the pacing step (wait until last_dl + min_dif, advance last_dl by
\* min_dif) is performed in every iteration that sent a GET, whatever its
\* outcome.
C5_PacingEveryGet ==
    [][StepWith(GetOutcomes) =>
        (last_dl' = last_dl + MinDif /\ now' >= last_dl')]_vars

\* C6: with force off, no GET is sent for a pair whose destination is a regular
\* file when the pair is reached; a run that finds every destination in place
\* sends none at all.
C6_NoRequestForExisting ==
    /\ [][(StepWith(GetOutcomes) /\ ~force)
            => ~IsFile(fs[pairs[idx].path])]_vars
    /\ []((~force /\ \A p \in DOMAIN fs0 : IsFile(fs0[p]))
            => \A k \in 1..Len(visited) : visited[k].outcome = "skip")

C6_Witness ==
    /\ dpc = "done"
    /\ ~force
    /\ Len(visited) = 2
    /\ \A p \in DOMAIN fs0 : IsFile(fs0[p])
    /\ \A k \in 1..Len(visited) : visited[k].outcome = "skip"

\* Every pair was visited exactly once, in list order.
VisitedOnceInOrder ==
    /\ Len(visited) = Len(records)
    /\ \A k \in 1..Len(visited) : visited[k].i = k

\* C7: a failed GET leaves the filesystem, and so the pair's destination, as it
\* was, and the run still visits every pair of the list.
C7_FailedRequestIsolated ==
    /\ [][StepWith({"request_failed"}) => fs' = fs]_vars
    /\ [](dpc = "done" => VisitedOnceInOrder)

C7_Witness ==
    /\ dpc = "done"
    /\ force
    /\ Len(visited) = 2
    /\ visited[1].outcome = "request_failed"
    /\ fs0[pairs[1].path] = OldFile
    /\ fs[pairs[1].path] = OldFile
    /\ visited[2].outcome = "ok"

\* C8: the loop always finishes, having visited each pair exactly once in list
\* order (so at most one GET per pair), whatever the outcomes.
C8_RunsToCompletion ==
    /\ <>(dpc = "done")
    /\ [](dpc = "done" => VisitedOnceInOrder)
    /\ [][Len(visited') >= Len(visited)
          /\ Len(visited') <= Len(visited) + 1]_vars

C8_Witness ==
    /\ dpc = "done"
    /\ Len(visited) = 2
    /\ visited[1].outcome = "request_failed"
    /\ visited[2].outcome = "write_failed"

\* C14: for a record with is_alias set the loop sends no GET, and writes
\* nothing at its destination.
C14_NoFetchForAlias ==
    [][(InLoop /\ records[idx].is_alias = 1 /\ Len(visited') = Len(visited) + 1)
        => /\ visited'[Len(visited')].outcome \notin GetOutcomes
           /\ fs'[pairs[idx].path] = fs[pairs[idx].path]]_vars

\* The URL's trailing path segment: what follows its last '/'.
TrailingSegment(url) == SubSeq(url, LastIndexOf(url, "/") + 1, Len(url))

\* The extension of the URL's trailing path segment, "png" when it has none.
SegmentSuffix(url) ==
    LET seg == TrailingSegment(url)
        i   == LastIndexOf(seg, ".")
    IN  IF i = 0 THEN PngSuffix ELSE SubSeq(seg, i + 1, Len(seg))

\* C15: building the pair list succeeds, and each destination is the base
\* directory, the record's name, and the extension of the URL's trailing path
\* segment ("png" when that segment has none).
C15_DestinationFromTrailingSegment ==
    dpc \in {"loop", "done"} =>
        /\ Len(pairs) = Len(records)
        /\ \A i \in 1..Len(records) :
            pairs[i].path = BasePath \o <<"/">> \o records[i].name \o <<".">>
                            \o SegmentSuffix(records[i].url)

\* C18: after a GET that succeeded and a write that failed, no regular file is
\* at the destination unless its removal failed; no other path is touched;
\* and, removal failed or not, the loop goes on to the next pair.
C18_FailedWriteCleanedUp ==
    [][StepWith({"write_failed"}) =>
        /\ removal' # "failed" => ~IsFile(fs'[pairs[idx].path])
        /\ \A p \in DOMAIN fs \ {pairs[idx].path} : fs'[p] = fs[p]
        /\ idx' = idx + 1
        /\ dpc' = "loop"]_vars

C18_Witness ==
    /\ dpc = "done"
    /\ Len(visited) = 2
    /\ pairs[1].path # pairs[2].path
    /\ visited[1].outcome = "write_failed"
    /\ fs0[pairs[1].path] = Absent
    /\ fs[pairs[1].path] = PartialFile
    /\ visited[2].outcome = "write_failed"
    /\ removal = "ok"
    /\ fs0[pairs[2].path] = OldFile
    /\ fs[pairs[2].path] = Absent

\* The number of iterations so far that reached the pacing of lines 396-398.
PacedCount ==
    Cardinality({ k \in 1..Len(visited) :
                    visited[k].outcome \in {"ok", "write_failed"} })

\* C19: the deadline never decreases; it changes only in a pacing step, by one
\* interval; after k pacing steps it is its initial value (the clock when the
\* loop was entered, the origin 0) plus k intervals, whatever the clock read
\* since; a skipped pair leaves it as it was.
C19_DeadlineAdvancesBySlots ==
    /\ [](dpc \in {"loop", "done"} => last_dl = MinDif * PacedCount)
    /\ [][last_dl' >= last_dl]_vars
    /\ [][last_dl' # last_dl =>
            (StepWith({"ok", "write_failed"}) /\ last_dl' = last_dl + MinDif)]_vars
    /\ [][StepWith({"skip"}) => last_dl' = last_dl]_vars

C19_Witness ==
    /\ dpc = "done"
    /\ Len(visited) = 2
    /\ visited[1].outcome = "ok"
    /\ visited[2].outcome = "write_failed"
    /\ last_dl = 2 * MinDif
    /\ now > last_dl

\* ------------------------------------------------------------ sink: claims

\* The path try_from was given.
Token == OutputPath(output, workspace)

\* C9: a listing run without an explicit output gets the StdOut variant.
C9_NoOutputIsStream ==
    (spc = "ready" /\ output = NoOutput) => ford_writer.variant = "StdOut"

\* C9, amended: a listing run without an explicit output is set up for the
\* path <workspace>/ and never fails to; its sink is the Directory variant on
\* that path, unless <workspace>/ is the path "-" (same components), when it
\* is the StdOut variant.
C9_NoOutputIsWorkspaceDirectory ==
    (spc # "start" /\ output = NoOutput) =>
        /\ spc = "ready"
        /\ ford_writer =
            IF Components(workspace \o <<"/">>) = <<Dash>>
            THEN [variant |-> "StdOut"]
            ELSE [variant |-> "Directory", dir |-> workspace \o <<"/">>]

C9_Witness ==
    /\ spc = "ready"
    /\ output = NoOutput
    /\ workspace = <<"a">>
    /\ dest0 = Absent
    /\ ford_writer = [variant |-> "Directory", dir |-> <<"a", "/">>]

\* C10: the variant is decided by the token and the filesystem at setup: the
\* token "-" gives StdOut; a token that names an existing directory or ends in
\* the separator gives Directory; every other token gives File (the branch in
\* which setup may fail); and the sink never changes after setup.
C10_SelectionByToken ==
    /\ [](spc # "start" =>
            LET expected ==
                    IF Token = Dash THEN "StdOut"
                    ELSE IF dest0.kind = "dir"
                            \/ (Token # <<>> /\ Token[Len(Token)] = "/")
                    THEN "Directory"
                    ELSE "File"
            IN  IF spc = "ready" THEN ford_writer.variant = expected
                ELSE expected = "File")
    /\ [][spc = "ready" => ford_writer' = ford_writer]_vars

\* The step is a write call on a sink of this variant that reported success.
WroteOk(variant) ==
    /\ Len(calls') = Len(calls) + 1
    /\ ford_writer.variant = variant
    /\ ret'.tag = "Ok"

\* <name>.json
NamedJson(name) == name \o <<".">> \o JsonExt

\* C11: a successful Directory-variant write(name, text) leaves in the target
\* directory exactly one file named <name>.json, holding text and a newline,
\* whatever was there under that name; also for names with a '.', so a file
\* left by an earlier write under another name stays as that write left it.
C11_OwnFilePerName ==
    /\ [][WroteOk("Directory") =>
            LET c == calls'[Len(calls')]
            IN  /\ dest'.kind = "dir"
                /\ \E f \in dest'.files : f[1] = NamedJson(c.name)
                /\ \A f \in dest'.files :
                    f[1] = NamedJson(c.name) => f[2] = Line(c.text)]_vars
    /\ [][WroteOk("Directory") =>
            \A f \in (IF dest.kind = "dir" THEN dest.files ELSE {}) :
                (\E k \in 1..Len(calls) :
                    /\ calls[k].ret.tag = "Ok"
                    /\ calls[k].name # calls'[Len(calls')].name
                    /\ f = <<RecordFile(ford_writer.dir, calls[k].name),
                             Line(calls[k].text)>>)
                => f \in dest'.files]_vars

\* The texts of the calls that reported success, a newline after each.
RECURSIVE OkLines(_)
OkLines(cs) ==
    IF cs = <<>> THEN <<>>
    ELSE (IF Head(cs).ret.tag = "Ok" THEN Line(Head(cs).text) ELSE <<>>)
         \o OkLines(Tail(cs))

\* C12: in every variant a write that reports success returns len(text) + 1,
\* and the file of the File variant holds the texts of the successful writes
\* so far, a newline after each, in call order.
C12_ReturnsLengthPlusOne ==
    /\ \A k \in 1..Len(calls) :
        calls[k].ret.tag = "Ok" => calls[k].ret.n = Len(calls[k].text) + 1
    /\ ford_writer.variant = "File" => inode = OkLines(calls)

\* ---------------------------------------------------------- reload: claims

\* The name is a non-empty stem followed by ".json".
EndsInDotJson(fname) ==
    /\ Len(fname) > 5
    /\ SubSeq(fname, Len(fname) - 4, Len(fname)) = <<".">> \o JsonExt

\* A regular file with extension json that can be read and parses as a record.
Qualifies(e) ==
    /\ e.kind = "file"
    /\ EndsInDotJson(e.fname)
    /\ e.content.c = "record"

\* C16: the reload of a directory that can be listed does not fail, and yields
\* one record for each entry that is a regular file with extension json and
\* parses as a record, in directory order, and nothing else; every other entry
\* is passed over.
C16_ReloadYieldsValidRecords ==
    /\ [](rpc = "done" =>
            LET sel == SelectSeq(dl_path.entries, Qualifies)
            IN  loaded = [i \in 1..Len(sel) |-> sel[i].content.rec])
    /\ [][rpc = "scan" =>
            /\ rpc' \in {"scan", "done"}
            /\ rpos' \in {rpos, rpos + 1}
            /\ Len(loaded') <= Len(loaded) + 1
            /\ SubSeq(loaded', 1, Len(loaded)) = loaded]_vars

C16_Witness ==
    /\ rpc = "done"
    /\ Len(dl_path.entries) = 2
    /\ dl_path.entries[1].kind = "file"
    /\ dl_path.entries[1].fname = <<"a", ".", "j", "s", "o", "n">>
    /\ dl_path.entries[1].content.c = "malformed"
    /\ Qualifies(dl_path.entries[2])
    /\ loaded = <<dl_path.entries[2].content.rec>>

\* ------------------------------------------------------------ list: claims

\* The step finished an iteration of the list loop.
ListStep == Len(attempts') = Len(attempts) + 1

\* C17: the list loop finishes, and every record of the fetched list gets one
\* attempt, in list order, whatever became of the records before it.
C17_EveryRecordAttempted ==
    /\ (lpc = "loop") ~> (lpc = "done")
    /\ [](lpc = "done" =>
            /\ Len(attempts) = Len(emoji)
            /\ \A k \in 1..Len(attempts) : attempts[k].i = k)
    /\ [][ListStep =>
            /\ attempts'[Len(attempts')].i = Len(attempts) + 1
            /\ SubSeq(attempts', 1, Len(attempts)) = attempts
            /\ emoji' = emoji]_vars
    /\ [][Len(attempts') >= Len(attempts)
          /\ Len(attempts') <= Len(attempts) + 1]_vars

C17_Witness ==
    /\ lpc = "done"
    /\ Len(emoji) = 2
    /\ Len(attempts) = 2
    /\ attempts[1].outcome = "write_failed"
    /\ attempts[2].outcome = "ok"

\* C20: when get_emoji fails, the listing has changed nothing at the output
\* path and written nothing: a file that was there holds what it held.
C20_FailedFetchLeavesDestination ==
    lpc = "exit1" => (dest = dest0 /\ calls = <<>> /\ stdout = <<>>)

====
